---- MODULE Spec2Model ----
(***************************************************************************)
(* The bank ledger of server/routes.ts over MemStorage (server/storage.ts). *)
(*                                                                         *)
(* Every route handler is an async function: it runs without interruption  *)
(* up to an `await`, and other handlers may run before it resumes.  Each   *)
(* action below is one such uninterrupted stretch of one handler.  A       *)
(* storage method reads the maps when it is CALLED (the part before its    *)
(* own first await), so a handler's snapshot is taken in the step that     *)
(* makes the call and used in the step after the await.                    *)
(*                                                                         *)
(* Next admits every request that changes the ledger, and GET of one       *)
(* account; SeqNext and OpenedNext admit the requests whose amount is a    *)
(* number or is missing; ReadNext adds the three list routes, each run     *)
(* alone; LiveNext admits every request of every route.                    *)
(*                                                                         *)
(* `response` is the response the last step sent, if any; `nreq` counts    *)
(* the requests that have arrived; `now` is the clock that `new Date()`    *)
(* reads; `batch` remembers the ledger as it was when the current group of *)
(* overlapping requests began (a request that arrives while no handler is  *)
(* in flight begins a new group), and counts the balance-changing requests *)
(* answered with success so far.                                           *)
(*                                                                         *)
(* Amounts are integers (whole currency units); ids produced by            *)
(* randomUUID() are modelled as the position of insertion, which keeps     *)
(* them unique and keeps the Map's insertion order.                        *)
(***************************************************************************)
EXTENDS Integers, Sequences, FiniteSets, TLC

VARIABLES accounts, transactions, h, response, nreq, batch, now

vars == <<accounts, transactions, h, response, nreq, batch, now>>

(* ------------------------------ bounds -------------------------------- *)
NumHandlers == 2
MaxRequests == 3
MaxAccountNumber == 2
MaxAmount == 1
MaxOpenedRequests == 2
MaxTime == 1
MaxLimit == 2
MaxReadRequests == 3
MaxLiveRequests == 2

Procs == 1..NumHandlers
AccountNumbers == 1..MaxAccountNumber
Names == {"Alice", "Bob"}

(* ------------------------- JSON request values ------------------------ *)
Undefined == [t |-> "undefined", v |-> 0]
Num(n) == [t |-> "number", v |-> n]
NoName == [t |-> "undefined", s |-> ""]
Str(s) == [t |-> "string", s |-> s]

\* a JSON string that holds the decimal digits of n
Text(n) == [t |-> "string", v |-> n]

AmountInputs == {Undefined} \cup {Num(n) : n \in (-1)..MaxAmount}
TextAmountInputs == {Text(n) : n \in 1..MaxAmount}
NameInputs == {NoName} \cup {Str(s) : s \in Names}

\* ?limit=<digits> in the query string, or no limit parameter
LimitInputs == {Undefined} \cup {Text(n) : n \in 0..MaxLimit}

(* ------------------------------ storage ------------------------------- *)
NullId == 0
\* `balance` is the number the stored value stands for (Number(balance));
\* balanceIsString tells that the stored value is a string of its digits.
NoAccount ==
  [id |-> NullId, accountNumber |-> 0, name |-> "", balance |-> 0,
   balanceIsString |-> FALSE, createdAt |-> 0]

\* (variant: a lookup that finds no match returns the first account)
getAccountByNumber_Fallback(accts, n) ==
  LET hits == {i \in 1..Len(accts) : accts[i].accountNumber = n}
  IN IF hits = {} THEN (IF accts = <<>> THEN NoAccount ELSE accts[1])
     ELSE accts[CHOOSE i \in hits : \A j \in hits : i <= j]

\* Array.from(this.accounts.values()).find(a => a.accountNumber === n)
getAccountByNumber(accts, n) ==
  LET hits == {i \in 1..Len(accts) : accts[i].accountNumber = n}
  IN IF hits = {} THEN NoAccount
     ELSE accts[CHOOSE i \in hits : \A j \in hits : i <= j]

\* `if (!account)` / `if (existing)`
Found(account) == account.id # NullId

\* (variant: the write keeps the id and the new balance only)
setBalance_DropsFields(accts, account, newBalance, isString) ==
  [accts EXCEPT ![account.id] =
     [NoAccount EXCEPT !.id = account.id, !.balance = newBalance,
                       !.balanceIsString = isString]]

\* this.accounts.set(account.id, { ...account, balance: newBalance })
setBalance(accts, account, newBalance, isString) ==
  [accts EXCEPT ![account.id] =
     [account EXCEPT !.balance = newBalance, !.balanceIsString = isString]]

\* (variant: the existence check is skipped)
AlreadyExists_Skipped(existing) == FALSE

\* `if (existing) throw new Error("Account n already exists")`
AlreadyExists(existing) == Found(existing)

\* insertAccount.balance ?? 0
balanceOrDefault(balance) == IF balance.t = "undefined" THEN 0 ELSE balance.v

\* (variant: the supplied balance is dropped)
newAccount_NoBalance(accts, accountNumber, name, balance) ==
  [id |-> Len(accts) + 1, accountNumber |-> accountNumber, name |-> name.s,
   balance |-> 0, balanceIsString |-> FALSE, createdAt |-> now]

\* { ...insertAccount, id, balance: insertAccount.balance ?? 0,
\*   createdAt: new Date() }
newAccount(accts, accountNumber, name, balance) ==
  [id |-> Len(accts) + 1, accountNumber |-> accountNumber, name |-> name.s,
   balance |-> balanceOrDefault(balance), balanceIsString |-> FALSE,
   createdAt |-> now]

\* (variant: the destination recorded is the id that follows it)
createTransaction_NextId(txs, type, fromAccountId, toAccountId, amount, isString) ==
  Append(txs, [id |-> Len(txs) + 1, type |-> type,
               fromAccountId |-> fromAccountId,
               toAccountId |-> IF toAccountId = NullId THEN NullId ELSE toAccountId + 1,
               amount |-> amount, amountIsString |-> isString, createdAt |-> now])

\* (variant: the new record takes the place of the latest one)
createTransaction_Overwrites(txs, type, fromAccountId, toAccountId, amount, isString) ==
  LET t == [id |-> Len(txs) + 1, type |-> type,
            fromAccountId |-> fromAccountId, toAccountId |-> toAccountId,
            amount |-> amount, amountIsString |-> isString, createdAt |-> now]
  IN IF txs = <<>> THEN <<t>> ELSE [txs EXCEPT ![Len(txs)] = t]

\* (variant: the two account references change places)
createTransaction_Swapped(txs, type, fromAccountId, toAccountId, amount, isString) ==
  Append(txs, [id |-> Len(txs) + 1, type |-> type,
               fromAccountId |-> toAccountId, toAccountId |-> fromAccountId,
               amount |-> amount, amountIsString |-> isString, createdAt |-> now])

\* this.transactions.set(id, { ...insertTransaction, id, fromAccountId ?? null,
\*   toAccountId ?? null, createdAt: new Date() }); `amount` is the number the
\* stored value stands for, amountIsString tells that it is stored as a string
createTransaction(txs, type, fromAccountId, toAccountId, amount, isString) ==
  Append(txs, [id |-> Len(txs) + 1, type |-> type,
               fromAccountId |-> fromAccountId, toAccountId |-> toAccountId,
               amount |-> amount, amountIsString |-> isString, createdAt |-> now])

\* Array.prototype.sort is stable: x goes behind every element that does not
\* come after it.  Before(a, b) is `compare(a, b) < 0`.
RECURSIVE InsertByNumber(_, _)
InsertByNumber(sorted, x) ==
  IF sorted = <<>> THEN <<x>>
  ELSE IF x.accountNumber - Head(sorted).accountNumber < 0 THEN <<x>> \o sorted
  ELSE <<Head(sorted)>> \o InsertByNumber(Tail(sorted), x)

\* .sort((a, b) => a.accountNumber - b.accountNumber)
RECURSIVE SortByNumber(_)
SortByNumber(accts) ==
  IF accts = <<>> THEN <<>>
  ELSE InsertByNumber(SortByNumber(SubSeq(accts, 1, Len(accts) - 1)), accts[Len(accts)])

\* Array.from(this.accounts.values()).sort(...)
getAllAccounts(accts) == SortByNumber(accts)

RECURSIVE InsertByNewest(_, _)
InsertByNewest(sorted, x) ==
  IF sorted = <<>> THEN <<x>>
  ELSE IF Head(sorted).createdAt - x.createdAt < 0 THEN <<x>> \o sorted
  ELSE <<Head(sorted)>> \o InsertByNewest(Tail(sorted), x)

\* .sort((a, b) => b.createdAt.getTime() - a.createdAt.getTime())
RECURSIVE SortByNewest(_)
SortByNewest(txs) ==
  IF txs = <<>> THEN <<>>
  ELSE InsertByNewest(SortByNewest(SubSeq(txs, 1, Len(txs) - 1)), txs[Len(txs)])

\* .slice(0, limit)
Slice(rows, limit) ==
  IF limit >= Len(rows) THEN rows
  ELSE IF limit >= 0 THEN SubSeq(rows, 1, limit)
  ELSE IF Len(rows) + limit > 0 THEN SubSeq(rows, 1, Len(rows) + limit)
  ELSE <<>>

\* (variant: one row more than asked for)
recentRows_OneMore(txs, limit) == Slice(SortByNewest(txs), limit + 1)

\* Array.from(this.transactions.values()).sort(...).slice(0, limit)
recentRows(txs, limit) == Slice(SortByNewest(txs), limit)

\* this.accounts.get(id)
getAccount(accts, id) == IF id \in 1..Len(accts) THEN accts[id] ELSE NoAccount

\* { accountNumber, name } of an account, or the property left out
NoDetails == [accountNumber |-> 0, name |-> ""]
Details(accts, id) ==
  IF id # NullId /\ Found(getAccount(accts, id))
  THEN [accountNumber |-> getAccount(accts, id).accountNumber,
        name |-> getAccount(accts, id).name]
  ELSE NoDetails

\* { ...transaction, fromAccount, toAccount }
WithDetails(accts, t) ==
  [id |-> t.id, type |-> t.type, fromAccountId |-> t.fromAccountId,
   toAccountId |-> t.toAccountId, amount |-> t.amount,
   amountIsString |-> t.amountIsString, createdAt |-> t.createdAt,
   fromAccount |-> Details(accts, t.fromAccountId),
   toAccount |-> Details(accts, t.toAccountId)]

(* --------------------------- route helpers ---------------------------- *)
\* insertAccountSchema.parse(req.body): accountNumber integer, name string,
\* balance an optional number; no range constraint on any of them.
SchemaOk(name, balance) == name.t = "string" /\ balance.t \in {"number", "undefined"}

\* `req.query.limit ? parseInt(req.query.limit) : 10`
DefaultLimit == 10
parseLimit(limit) == IF limit.t = "undefined" THEN DefaultLimit ELSE limit.v

\* (variant: an amount of 0 is let through)
InvalidAmount_ZeroAccepted(amount) == amount.t = "undefined" \/ amount.v < 0

\* `!amount || amount <= 0`
InvalidAmount(amount) ==
  \/ amount.t = "undefined" \/ (amount.t = "number" /\ amount.v = 0)
  \/ amount.v <= 0

\* (variant: the same-account check is left out)
SameAccount_Never(from, to) == FALSE

\* `fromAccountNumber === toAccountNumber`
SameAccount(from, to) == from = to

\* (variant: the funds check is left out)
InsufficientFunds_Never(balance, amount) == FALSE

\* (variant: the comparison is turned around)
InsufficientFunds_Reversed(balance, amount) == balance > amount

\* `account.balance < amount`
InsufficientFunds(balance, amount) == balance < amount

\* `account.balance + amount` when either operand is a string: the digits of
\* the amount (one digit, MaxAmount <= 9) follow those of the balance
Concat(balance, amount) ==
  IF balance < 0 THEN balance * 10 - amount ELSE balance * 10 + amount

\* typeof (account.balance + amount) === "string"
PlusIsString(account, amount) == account.balanceIsString \/ amount.t = "string"

\* (variant: the new balance is the amount, not the sum)
Credit_Overwrites(balance, amount) == amount

\* `account.balance + amount`
Credit(balance, amount) == balance + amount

\* `account.balance + amount`, a number or a string
Plus(account, amount) ==
  IF PlusIsString(account, amount) THEN Concat(account.balance, amount.v)
  ELSE Credit(account.balance, amount.v)

\* (variant: the withdrawal is added to the balance)
Debit_Adds(balance, amount) == balance + amount

\* (variant: the source is debited twice the amount)
Debit_Twice(balance, amount) == balance - amount - amount

\* `account.balance - amount`
Debit(balance, amount) == balance - amount

(* ---------------------------- dashboard ------------------------------ *)
\* transactions.filter(t => t.type === type).reduce((sum, t) => sum + t.amount, 0):
\* a number, or (from the first amount that is a string on) a string of digits
RECURSIVE Total(_, _)
Total(txs, type) ==
  IF txs = <<>> THEN [v |-> 0, isString |-> FALSE]
  ELSE LET sum == Total(SubSeq(txs, 1, Len(txs) - 1), type)
           t == txs[Len(txs)]
       IN IF t.type # type THEN sum
          ELSE IF sum.isString \/ t.amountIsString
          THEN [v |-> Concat(sum.v, t.amount), isString |-> TRUE]
          ELSE [v |-> sum.v + t.amount, isString |-> FALSE]

\* `$${n.toLocaleString('en-US', { minimumFractionDigits: 2 })}` of a whole
\* number n is "$", n with its thousands grouped, ".00"
Money(n) == [currency |-> "$", units |-> n, fractionDigits |-> 2, grouped |-> TRUE]

\* the same template applied to a total: a string has the toLocaleString of
\* Object, which returns it as it is
Formatted(total) ==
  IF total.isString
  THEN [currency |-> "$", units |-> total.v, fractionDigits |-> 0, grouped |-> FALSE]
  ELSE Money(total.v)

\* transactions.filter(t => t.type === 'transfer').length
CountOf(txs, type) == Cardinality({i \in 1..Len(txs) : txs[i].type = type})

\* the object getDashboardStats returns
Stats(rows, txs) ==
  [totalAccounts |-> Len(rows),
   totalDeposits |-> Formatted(Total(txs, "deposit")),
   totalWithdrawals |-> Formatted(Total(txs, "withdraw")),
   activeTransfers |-> CountOf(txs, "transfer")]

(* ------------------------------ handlers ------------------------------ *)
\* The locals of a handler that has just been entered, none of them set.
NewRequest ==
  [op |-> "none", pc |-> "idle",
   accountNumber |-> 0, toAccountNumber |-> 0, name |-> NoName,
   balance |-> Undefined, amount |-> Undefined,
   account |-> NoAccount, toAccount |-> NoAccount, target |-> NoAccount,
   newBalance |-> 0, newBalanceIsString |-> FALSE,
   newToBalance |-> 0, newToBalanceIsString |-> FALSE,
   updatedAccount |-> NoAccount,
   limit |-> Undefined, rows |-> <<>>, details |-> <<>>,
   stats |-> Stats(<<>>, <<>>)]

\* A slot that runs no handler.
Idle == [op |-> "none", pc |-> "idle"]

InFlight(p) == h[p].pc # "idle"
Quiescent == \A p \in Procs : ~InFlight(p)

\* A request is taken by the lowest free handler slot.
Free(p) == ~InFlight(p) /\ \A q \in Procs : q < p => InFlight(q)

\* res.status(status).json(...): the response of a handler
Response(r, status, message, result) ==
  [op |-> r.op, accountNumber |-> r.accountNumber,
   toAccountNumber |-> r.toAccountNumber, name |-> r.name, balance |-> r.balance,
   amount |-> r.amount, limit |-> r.limit,
   status |-> status, message |-> message, result |-> result]

NoResponse == Response(NewRequest, 0, "", NoAccount)

\* The handler of slot p responds and is finished.
Respond(p, status, message, result) ==
  /\ response' = Response(h[p], status, message, result)
  /\ h' = [h EXCEPT ![p] = Idle]

\* Bookkeeping of the requests that overlap in time.
Arrive(op) ==
  /\ nreq < MaxRequests
  /\ nreq' = nreq + 1
  /\ now' = now
  /\ batch' = IF Quiescent
              THEN [accounts0 |-> accounts, transactions0 |-> transactions,
                    ops |-> {op}, count |-> 1,
                    delta |-> [i \in 1..Len(accounts) |-> 0],
                    successes |-> batch.successes]
              ELSE [batch EXCEPT !.ops = @ \cup {op}, !.count = @ + 1]

\* A successful request is credited to the account it named.
Add(delta, id, n) ==
  IF id \in DOMAIN delta THEN [delta EXCEPT ![id] = @ + n] ELSE delta

(* POST /api/accounts *)
StartCreate(p) ==
  /\ Free(p)
  /\ Arrive("createAccount")
  /\ \E n \in AccountNumbers, name \in NameInputs, balance \in AmountInputs :
       LET r == [NewRequest EXCEPT !.op = "createAccount", !.accountNumber = n,
                             !.name = name, !.balance = balance]
       IN IF ~SchemaOk(name, balance)
       THEN /\ response' = Response(r, 400, "Invalid account data", NoAccount)
            /\ UNCHANGED h
       ELSE /\ h' = [h EXCEPT ![p] =
                       [r EXCEPT !.pc = "createAccount_insert",
                                 !.target = getAccountByNumber(accounts, n)]]
            /\ response' = NoResponse
  /\ UNCHANGED <<accounts, transactions>>

\* storage.createAccount after its await: `if (existing) throw`, else insert
CreateInsert(p) ==
  /\ h[p].pc = "createAccount_insert"
  /\ IF AlreadyExists(h[p].target)
     THEN /\ Respond(p, 400, "already exists", NoAccount)
          /\ UNCHANGED accounts
     ELSE LET account == newAccount(accounts, h[p].accountNumber, h[p].name, h[p].balance)
          IN /\ accounts' = Append(accounts, account)
             /\ h' = [h EXCEPT ![p].pc = "createAccount_tx", ![p].account = account]
             /\ response' = NoResponse
  /\ UNCHANGED <<transactions, nreq, batch, now>>

\* `if (account.balance > 0) await storage.createTransaction(...)`
CreateTx(p) ==
  /\ h[p].pc = "createAccount_tx"
  /\ IF h[p].account.balance > 0
     THEN /\ transactions' = createTransaction(transactions, "deposit", NullId,
                                               h[p].account.id, h[p].account.balance, FALSE)
          /\ h' = [h EXCEPT ![p].pc = "createAccount_respond"]
          /\ response' = NoResponse
     ELSE /\ Respond(p, 201, "", h[p].account)
          /\ UNCHANGED transactions
  /\ UNCHANGED <<accounts, nreq, batch, now>>

CreateRespond(p) ==
  /\ h[p].pc = "createAccount_respond"
  /\ Respond(p, 201, "", h[p].account)
  /\ batch' = [batch EXCEPT !.successes = @ + 1]
  /\ UNCHANGED <<accounts, transactions, nreq, now>>

(* GET /api/accounts/:accountNumber *)
StartGet(p) ==
  /\ Free(p)
  /\ Arrive("getAccount")
  /\ \E n \in AccountNumbers :
       h' = [h EXCEPT ![p] = [NewRequest EXCEPT !.op = "getAccount", !.pc = "getAccount_respond",
                                          !.accountNumber = n,
                                          !.account = getAccountByNumber(accounts, n)]]
  /\ response' = NoResponse
  /\ UNCHANGED <<accounts, transactions>>

GetRespond(p) ==
  /\ h[p].pc = "getAccount_respond"
  /\ IF ~Found(h[p].account)
     THEN Respond(p, 404, "not found", NoAccount)
     ELSE Respond(p, 200, "", h[p].account)
  /\ UNCHANGED <<accounts, transactions, nreq, batch, now>>

(* POST /api/accounts/:accountNumber/deposit *)
DepositRequest(p, amounts) ==
  /\ Free(p)
  /\ Arrive("deposit")
  /\ \E n \in AccountNumbers, amount \in amounts :
       LET r == [NewRequest EXCEPT !.op = "deposit", !.accountNumber = n, !.amount = amount]
       IN IF InvalidAmount(amount)
       THEN /\ response' = Response(r, 400, "Amount must be positive", NoAccount)
            /\ UNCHANGED h
       ELSE /\ h' = [h EXCEPT ![p] =
                       [r EXCEPT !.pc = "deposit_lookup",
                                 !.account = getAccountByNumber(accounts, n)]]
            /\ response' = NoResponse
  /\ UNCHANGED <<accounts, transactions>>

\* body { amount: <number> } or {}
StartDeposit(p) == DepositRequest(p, AmountInputs)

\* body { amount: "<digits>" }
StartDepositText(p) == DepositRequest(p, TextAmountInputs)

\* `if (!account) 404`, else call storage.updateAccountBalance, which looks the
\* account up again before its own await
DepositUpdate(p) ==
  /\ h[p].pc = "deposit_lookup"
  /\ IF ~Found(h[p].account)
     THEN Respond(p, 404, "not found", NoAccount)
     ELSE /\ h' = [h EXCEPT ![p].pc = "deposit_write",
                            ![p].newBalance = Plus(h[p].account, h[p].amount),
                            ![p].newBalanceIsString = PlusIsString(h[p].account, h[p].amount),
                            ![p].target = getAccountByNumber(accounts, h[p].accountNumber)]
          /\ response' = NoResponse
  /\ UNCHANGED <<accounts, transactions, nreq, batch, now>>

\* storage.updateAccountBalance after its await: throw (500) or write
DepositWrite(p) ==
  /\ h[p].pc = "deposit_write"
  /\ IF ~Found(h[p].target)
     THEN /\ Respond(p, 500, "Failed to process deposit", NoAccount)
          /\ UNCHANGED accounts
     ELSE /\ accounts' = setBalance(accounts, h[p].target, h[p].newBalance,
                                    h[p].newBalanceIsString)
          /\ h' = [h EXCEPT ![p].pc = "deposit_tx",
                            ![p].updatedAccount =
                               [h[p].target EXCEPT !.balance = h[p].newBalance,
                                                   !.balanceIsString = h[p].newBalanceIsString]]
          /\ response' = NoResponse
  /\ UNCHANGED <<transactions, nreq, batch, now>>

DepositTx(p) ==
  /\ h[p].pc = "deposit_tx"
  /\ transactions' = createTransaction(transactions, "deposit", NullId,
                                       h[p].account.id, h[p].amount.v,
                                       h[p].amount.t = "string")
  /\ h' = [h EXCEPT ![p].pc = "deposit_respond"]
  /\ response' = NoResponse
  /\ UNCHANGED <<accounts, nreq, batch, now>>

\* (variant: the handler never gets to its response)
DepositRespond_Never(p) ==
  /\ h[p].pc = "deposit_respond"
  /\ UNCHANGED vars

\* res.json({ account, message: `... ${newBalance.toFixed(2)}` }): a string has
\* no toFixed, the TypeError is caught and answered 500
DepositRespond(p) ==
  /\ h[p].pc = "deposit_respond"
  /\ IF h[p].newBalanceIsString
     THEN /\ Respond(p, 500, "Failed to process deposit", NoAccount)
          /\ UNCHANGED batch
     ELSE /\ Respond(p, 200, "Deposit successful", h[p].updatedAccount)
          /\ batch' = [batch EXCEPT !.delta = Add(@, h[p].account.id, h[p].amount.v),
                                    !.successes = @ + 1]
  /\ UNCHANGED <<accounts, transactions, nreq, now>>

(* POST /api/accounts/:accountNumber/withdraw *)
StartWithdraw(p) ==
  /\ Free(p)
  /\ Arrive("withdraw")
  /\ \E n \in AccountNumbers, amount \in AmountInputs :
       LET r == [NewRequest EXCEPT !.op = "withdraw", !.accountNumber = n, !.amount = amount]
       IN IF InvalidAmount(amount)
       THEN /\ response' = Response(r, 400, "Amount must be positive", NoAccount)
            /\ UNCHANGED h
       ELSE /\ h' = [h EXCEPT ![p] =
                       [r EXCEPT !.pc = "withdraw_lookup",
                                 !.account = getAccountByNumber(accounts, n)]]
            /\ response' = NoResponse
  /\ UNCHANGED <<accounts, transactions>>

WithdrawUpdate(p) ==
  /\ h[p].pc = "withdraw_lookup"
  /\ IF ~Found(h[p].account)
     THEN Respond(p, 404, "not found", NoAccount)
     ELSE IF InsufficientFunds(h[p].account.balance, h[p].amount.v)
     THEN Respond(p, 400, "Insufficient funds", NoAccount)
     ELSE /\ h' = [h EXCEPT ![p].pc = "withdraw_write",
                            ![p].newBalance = Debit(h[p].account.balance, h[p].amount.v),
                            ![p].target = getAccountByNumber(accounts, h[p].accountNumber)]
          /\ response' = NoResponse
  /\ UNCHANGED <<accounts, transactions, nreq, batch, now>>

WithdrawWrite(p) ==
  /\ h[p].pc = "withdraw_write"
  /\ IF ~Found(h[p].target)
     THEN /\ Respond(p, 500, "Failed to process withdrawal", NoAccount)
          /\ UNCHANGED accounts
     ELSE /\ accounts' = setBalance(accounts, h[p].target, h[p].newBalance, FALSE)
          /\ h' = [h EXCEPT ![p].pc = "withdraw_tx",
                            ![p].updatedAccount =
                               [h[p].target EXCEPT !.balance = h[p].newBalance,
                                                   !.balanceIsString = FALSE]]
          /\ response' = NoResponse
  /\ UNCHANGED <<transactions, nreq, batch, now>>

WithdrawTx(p) ==
  /\ h[p].pc = "withdraw_tx"
  /\ transactions' = createTransaction(transactions, "withdraw", h[p].account.id,
                                       NullId, h[p].amount.v,
                                       h[p].amount.t = "string")
  /\ h' = [h EXCEPT ![p].pc = "withdraw_respond"]
  /\ response' = NoResponse
  /\ UNCHANGED <<accounts, nreq, batch, now>>

WithdrawRespond(p) ==
  /\ h[p].pc = "withdraw_respond"
  /\ Respond(p, 200, "Withdrawal successful", h[p].updatedAccount)
  /\ batch' = [batch EXCEPT !.delta = Add(@, h[p].account.id, 0 - h[p].amount.v),
                            !.successes = @ + 1]
  /\ UNCHANGED <<accounts, transactions, nreq, now>>

(* POST /api/accounts/transfer *)
StartTransfer(p) ==
  /\ Free(p)
  /\ Arrive("transfer")
  /\ \E from \in AccountNumbers, to \in AccountNumbers, amount \in AmountInputs :
       LET r == [NewRequest EXCEPT !.op = "transfer", !.accountNumber = from,
                             !.toAccountNumber = to, !.amount = amount]
       IN IF InvalidAmount(amount)
       THEN /\ response' = Response(r, 400, "Amount must be positive", NoAccount)
            /\ UNCHANGED h
       ELSE IF SameAccount(from, to)
       THEN /\ response' = Response(r, 400, "Cannot transfer to the same account", NoAccount)
            /\ UNCHANGED h
       ELSE /\ h' = [h EXCEPT ![p] =
                       [r EXCEPT !.pc = "transfer_lookupTo",
                                 !.account = getAccountByNumber(accounts, from)]]
            /\ response' = NoResponse
  /\ UNCHANGED <<accounts, transactions>>

\* `const toAccount = await storage.getAccountByNumber(toAccountNumber)`
TransferLookupTo(p) ==
  /\ h[p].pc = "transfer_lookupTo"
  /\ h' = [h EXCEPT ![p].pc = "transfer_check",
                    ![p].toAccount = getAccountByNumber(accounts, h[p].toAccountNumber)]
  /\ response' = NoResponse
  /\ UNCHANGED <<accounts, transactions, nreq, batch, now>>

\* the two checks, the two new balances, and the call of the first
\* storage.updateAccountBalance up to its await
TransferCheck(p) ==
  /\ h[p].pc = "transfer_check"
  /\ IF ~Found(h[p].account) \/ ~Found(h[p].toAccount)
     THEN Respond(p, 404, "One or both accounts not found", NoAccount)
     ELSE IF InsufficientFunds(h[p].account.balance, h[p].amount.v)
     THEN Respond(p, 400, "Insufficient funds in source account", NoAccount)
     ELSE /\ h' = [h EXCEPT ![p].pc = "transfer_debit",
                            ![p].newBalance = Debit(h[p].account.balance, h[p].amount.v),
                            ![p].newToBalance = Plus(h[p].toAccount, h[p].amount),
                            ![p].newToBalanceIsString =
                               PlusIsString(h[p].toAccount, h[p].amount),
                            ![p].target = getAccountByNumber(accounts, h[p].accountNumber)]
          /\ response' = NoResponse
  /\ UNCHANGED <<accounts, transactions, nreq, batch, now>>

TransferDebit(p) ==
  /\ h[p].pc = "transfer_debit"
  /\ IF ~Found(h[p].target)
     THEN /\ Respond(p, 500, "Failed to process transfer", NoAccount)
          /\ UNCHANGED accounts
     ELSE /\ accounts' = setBalance(accounts, h[p].target, h[p].newBalance, FALSE)
          /\ h' = [h EXCEPT ![p].pc = "transfer_creditCall"]
          /\ response' = NoResponse
  /\ UNCHANGED <<transactions, nreq, batch, now>>

\* the call of the second storage.updateAccountBalance up to its await
TransferCreditCall(p) ==
  /\ h[p].pc = "transfer_creditCall"
  /\ h' = [h EXCEPT ![p].pc = "transfer_credit",
                    ![p].target = getAccountByNumber(accounts, h[p].toAccountNumber)]
  /\ response' = NoResponse
  /\ UNCHANGED <<accounts, transactions, nreq, batch, now>>

TransferCredit(p) ==
  /\ h[p].pc = "transfer_credit"
  /\ IF ~Found(h[p].target)
     THEN /\ Respond(p, 500, "Failed to process transfer", NoAccount)
          /\ UNCHANGED accounts
     ELSE /\ accounts' = setBalance(accounts, h[p].target, h[p].newToBalance,
                                    h[p].newToBalanceIsString)
          /\ h' = [h EXCEPT ![p].pc = "transfer_tx"]
          /\ response' = NoResponse
  /\ UNCHANGED <<transactions, nreq, batch, now>>

TransferTx(p) ==
  /\ h[p].pc = "transfer_tx"
  /\ transactions' = createTransaction(transactions, "transfer", h[p].account.id,
                                       h[p].toAccount.id, h[p].amount.v,
                                       h[p].amount.t = "string")
  /\ h' = [h EXCEPT ![p].pc = "transfer_respond"]
  /\ response' = NoResponse
  /\ UNCHANGED <<accounts, nreq, batch, now>>

\* res.json({ ..., message: `... ${newToBalance.toFixed(2)}` }), as in deposit
TransferRespond(p) ==
  /\ h[p].pc = "transfer_respond"
  /\ IF h[p].newToBalanceIsString
     THEN /\ Respond(p, 500, "Failed to process transfer", NoAccount)
          /\ UNCHANGED batch
     ELSE /\ Respond(p, 200, "Transfer successful", NoAccount)
          /\ batch' = [batch EXCEPT
                         !.delta = Add(Add(@, h[p].account.id, 0 - h[p].amount.v),
                                       h[p].toAccount.id, h[p].amount.v),
                         !.successes = @ + 1]
  /\ UNCHANGED <<accounts, transactions, nreq, now>>

(* GET /api/accounts *)
\* (variant: the stored accounts themselves are put in order)
StartList_SortsInPlace(p) ==
  /\ Free(p)
  /\ Arrive("listAccounts")
  /\ h' = [h EXCEPT ![p] = [NewRequest EXCEPT !.op = "listAccounts",
                                              !.pc = "listAccounts_respond",
                                              !.rows = getAllAccounts(accounts)]]
  /\ response' = NoResponse
  /\ accounts' = getAllAccounts(accounts)
  /\ UNCHANGED transactions

StartList(p) ==
  /\ Free(p)
  /\ Arrive("listAccounts")
  /\ h' = [h EXCEPT ![p] = [NewRequest EXCEPT !.op = "listAccounts",
                                              !.pc = "listAccounts_respond",
                                              !.rows = getAllAccounts(accounts)]]
  /\ response' = NoResponse
  /\ UNCHANGED <<accounts, transactions>>

ListRespond(p) ==
  /\ h[p].pc = "listAccounts_respond"
  /\ Respond(p, 200, "", h[p].rows)
  /\ UNCHANGED <<accounts, transactions, nreq, batch, now>>

(* GET /api/transactions/recent *)
\* storage.getRecentTransactions sorts and slices before its first await
StartRecent(p) ==
  /\ Free(p)
  /\ Arrive("recentTransactions")
  /\ \E limit \in LimitInputs :
       LET rows == recentRows(transactions, parseLimit(limit))
       IN h' = [h EXCEPT ![p] =
                  [NewRequest EXCEPT !.op = "recentTransactions",
                                     !.pc = IF rows = <<>> THEN "recent_respond"
                                            ELSE "recent_details",
                                     !.limit = limit,
                                     !.rows = rows]]
  /\ response' = NoResponse
  /\ UNCHANGED <<accounts, transactions>>

\* one turn of `for (const transaction of transactions)`: the accounts the
\* transaction refers to are looked up (an account, once stored, keeps its
\* accountNumber and name) and the row is pushed
RecentDetails(p) ==
  /\ h[p].pc = "recent_details"
  /\ LET details == Append(h[p].details,
                           WithDetails(accounts, h[p].rows[Len(h[p].details) + 1]))
     IN h' = [h EXCEPT ![p].details = details,
                       ![p].pc = IF Len(details) = Len(h[p].rows) THEN "recent_respond"
                                 ELSE "recent_details"]
  /\ response' = NoResponse
  /\ UNCHANGED <<accounts, transactions, nreq, batch, now>>

RecentRespond(p) ==
  /\ h[p].pc = "recent_respond"
  /\ Respond(p, 200, "", h[p].details)
  /\ UNCHANGED <<accounts, transactions, nreq, batch, now>>

(* GET /api/dashboard/stats *)
\* storage.getDashboardStats up to `await this.getAllAccounts()`
StartStats(p) ==
  /\ Free(p)
  /\ Arrive("dashboardStats")
  /\ h' = [h EXCEPT ![p] = [NewRequest EXCEPT !.op = "dashboardStats",
                                              !.pc = "stats_compute",
                                              !.rows = getAllAccounts(accounts)]]
  /\ response' = NoResponse
  /\ UNCHANGED <<accounts, transactions>>

\* after that await: the transactions are read and the stats are made
StatsCompute(p) ==
  /\ h[p].pc = "stats_compute"
  /\ h' = [h EXCEPT ![p].pc = "stats_respond",
                    ![p].stats = Stats(h[p].rows, transactions)]
  /\ response' = NoResponse
  /\ UNCHANGED <<accounts, transactions, nreq, batch, now>>

StatsRespond(p) ==
  /\ h[p].pc = "stats_respond"
  /\ Respond(p, 200, "", h[p].stats)
  /\ UNCHANGED <<accounts, transactions, nreq, batch, now>>

(* The clock advances between two steps of the handlers. *)
Tick ==
  /\ now < MaxTime
  /\ now' = now + 1
  /\ response' = NoResponse
  /\ UNCHANGED <<accounts, transactions, h, nreq, batch>>

(* --------------------------- specifications -------------------------- *)
NoBatch ==
  [accounts0 |-> <<>>, transactions0 |-> <<>>, ops |-> {}, count |-> 0, delta |-> <<>>,
   successes |-> 0]

\* new MemStorage(): both maps empty, no request yet
Init ==
  /\ accounts = <<>>
  /\ transactions = <<>>
  /\ h = [p \in Procs |-> Idle]
  /\ response = NoResponse
  /\ nreq = 0
  /\ batch = NoBatch
  /\ now = 0

Create(p) ==
  \/ StartCreate(p)
  \/ CreateInsert(p)
  \/ CreateTx(p)
  \/ CreateRespond(p)

Get(p) ==
  \/ StartGet(p)
  \/ GetRespond(p)

Deposit(p) ==
  \/ StartDeposit(p)
  \/ DepositUpdate(p)
  \/ DepositWrite(p)
  \/ DepositTx(p)
  \/ DepositRespond(p)

Withdraw(p) ==
  \/ StartWithdraw(p)
  \/ WithdrawUpdate(p)
  \/ WithdrawWrite(p)
  \/ WithdrawTx(p)
  \/ WithdrawRespond(p)

Transfer(p) ==
  \/ StartTransfer(p)
  \/ TransferLookupTo(p)
  \/ TransferCheck(p)
  \/ TransferDebit(p)
  \/ TransferCreditCall(p)
  \/ TransferCredit(p)
  \/ TransferTx(p)
  \/ TransferRespond(p)

Next ==
  \/ \E p \in Procs :
       \/ Create(p) \/ Get(p) \/ Deposit(p) \/ Withdraw(p) \/ Transfer(p)
       \/ StartDepositText(p)
  \/ Tick

Spec == Init /\ [][Next]_vars

\* One request at a time: a request arrives only when no handler is in flight.
\* Every amount is a number or missing.
\* The requests follow each other within one reading of the clock, and each
\* is taken by the first handler slot (Free).
SeqNext ==
  \E p \in {1} :
    \/ Quiescent /\ StartCreate(p)
    \/ CreateInsert(p)
    \/ CreateTx(p)
    \/ CreateRespond(p)
    \/ Quiescent /\ StartGet(p)
    \/ GetRespond(p)
    \/ Quiescent /\ StartDeposit(p)
    \/ DepositUpdate(p)
    \/ DepositWrite(p)
    \/ DepositTx(p)
    \/ DepositRespond(p)
    \/ Quiescent /\ StartWithdraw(p)
    \/ WithdrawUpdate(p)
    \/ WithdrawWrite(p)
    \/ WithdrawTx(p)
    \/ WithdrawRespond(p)
    \/ Quiescent /\ StartTransfer(p)
    \/ TransferLookupTo(p)
    \/ TransferCheck(p)
    \/ TransferDebit(p)
    \/ TransferCreditCall(p)
    \/ TransferCredit(p)
    \/ TransferTx(p)
    \/ TransferRespond(p)

SeqSpec == Init /\ [][SeqNext]_vars

\* The ledger after accounts 1 and 2 were opened one request at a time, the
\* first by "Alice" and the second by "Bob", each with a balance >= 0 (a
\* positive opening balance has its deposit transaction).
Opened(b1, b2) ==
  LET a1 == [id |-> 1, accountNumber |-> 1, name |-> "Alice", balance |-> b1,
             balanceIsString |-> FALSE, createdAt |-> 0]
      a2 == [id |-> 2, accountNumber |-> 2, name |-> "Bob", balance |-> b2,
             balanceIsString |-> FALSE, createdAt |-> 0]
      t1 == IF b1 > 0 THEN createTransaction(<<>>, "deposit", NullId, 1, b1, FALSE) ELSE <<>>
      t2 == IF b2 > 0 THEN createTransaction(t1, "deposit", NullId, 2, b2, FALSE) ELSE t1
  IN [accounts |-> <<a1, a2>>, transactions |-> t2]

OpenedInit ==
  \E b1 \in 0..MaxAmount, b2 \in 0..MaxAmount :
    /\ now = 0
    /\ accounts = Opened(b1, b2).accounts
    /\ transactions = Opened(b1, b2).transactions
    /\ h = [p \in Procs |-> Idle]
    /\ response = NoResponse
    /\ nreq = 0
    /\ batch = [NoBatch EXCEPT !.successes = Len(Opened(b1, b2).transactions)]

\* Requests on a ledger whose accounts are already open: at most
\* MaxOpenedRequests of them, any of which may overlap.
MayArrive == nreq < MaxOpenedRequests

OpenedNext ==
  \E p \in Procs :
    \/ MayArrive /\ StartGet(p)
    \/ GetRespond(p)
    \/ MayArrive /\ StartDeposit(p)
    \/ DepositUpdate(p)
    \/ DepositWrite(p)
    \/ DepositTx(p)
    \/ DepositRespond(p)
    \/ MayArrive /\ StartWithdraw(p)
    \/ WithdrawUpdate(p)
    \/ WithdrawWrite(p)
    \/ WithdrawTx(p)
    \/ WithdrawRespond(p)
    \/ MayArrive /\ StartTransfer(p)
    \/ TransferLookupTo(p)
    \/ TransferCheck(p)
    \/ TransferDebit(p)
    \/ TransferCreditCall(p)
    \/ TransferCredit(p)
    \/ TransferTx(p)
    \/ TransferRespond(p)

OpenedSpec == OpenedInit /\ [][OpenedNext]_vars

\* The read requests on a ledger that creates and deposits (overlapping, with
\* any amount) have built: a read request arrives when no handler is in
\* flight, and no request arrives while it runs.
ReadOps == {"getAccount", "listAccounts", "recentTransactions", "dashboardStats"}
ReadInFlight == \E p \in Procs : h[p].op \in ReadOps
WriteMayArrive == nreq < MaxReadRequests /\ ~ReadInFlight
ReadMayArrive == nreq < MaxReadRequests /\ Quiescent

ReadNext ==
  \/ \E p \in Procs :
       \/ WriteMayArrive /\ StartCreate(p)
       \/ CreateInsert(p)
       \/ CreateTx(p)
       \/ CreateRespond(p)
       \/ WriteMayArrive /\ StartDeposit(p)
       \/ WriteMayArrive /\ StartDepositText(p)
       \/ DepositUpdate(p)
       \/ DepositWrite(p)
       \/ DepositTx(p)
       \/ DepositRespond(p)
       \/ ReadMayArrive /\ StartGet(p)
       \/ GetRespond(p)
       \/ ReadMayArrive /\ StartList(p)
       \/ ListRespond(p)
       \/ ReadMayArrive /\ StartRecent(p)
       \/ RecentDetails(p)
       \/ RecentRespond(p)
       \/ ReadMayArrive /\ StartStats(p)
       \/ StatsCompute(p)
       \/ StatsRespond(p)
  \/ Tick

ReadSpec == Init /\ [][ReadNext]_vars

\* The step of handler p that follows one of its awaits.
Continue(p) ==
  \/ CreateInsert(p) \/ CreateTx(p) \/ CreateRespond(p)
  \/ GetRespond(p)
  \/ DepositUpdate(p) \/ DepositWrite(p) \/ DepositTx(p) \/ DepositRespond(p)
  \/ WithdrawUpdate(p) \/ WithdrawWrite(p) \/ WithdrawTx(p) \/ WithdrawRespond(p)
  \/ TransferLookupTo(p) \/ TransferCheck(p) \/ TransferDebit(p)
  \/ TransferCreditCall(p) \/ TransferCredit(p) \/ TransferTx(p)
  \/ TransferRespond(p)
  \/ ListRespond(p)
  \/ RecentDetails(p) \/ RecentRespond(p)
  \/ StatsCompute(p) \/ StatsRespond(p)

\* Any request, overlapping any other, on the empty ledger or on one whose
\* accounts are open.
LiveInit == Init \/ OpenedInit

LiveMayArrive == nreq < MaxLiveRequests

LiveNext ==
  \/ \E p \in Procs :
       \/ LiveMayArrive /\ StartCreate(p)
       \/ LiveMayArrive /\ StartGet(p)
       \/ LiveMayArrive /\ StartDeposit(p)
       \/ LiveMayArrive /\ StartDepositText(p)
       \/ LiveMayArrive /\ StartWithdraw(p)
       \/ LiveMayArrive /\ StartTransfer(p)
       \/ LiveMayArrive /\ StartList(p)
       \/ LiveMayArrive /\ StartRecent(p)
       \/ LiveMayArrive /\ StartStats(p)
       \/ Continue(p)
  \/ Tick

\* Every continuation that the event loop has queued is run: the awaited
\* promises of MemStorage are all resolved, and the microtask queue is served
\* in order until it is empty.
Fairness == \A p \in Procs : WF_vars(Continue(p))

LiveSpec == LiveInit /\ [][LiveNext]_vars /\ Fairness

(* ------------------------------ properties ---------------------------- *)
RECURSIVE SumBalances(_)
SumBalances(accts) ==
  IF accts = <<>> THEN 0 ELSE Head(accts).balance + SumBalances(Tail(accts))

Numbered(accts, n) == {i \in 1..Len(accts) : accts[i].accountNumber = n}

\* The response just sent answers a request that ran with no other request
\* in flight from its arrival to its response: batch.accounts0 and
\* batch.transactions0 are the ledger it found.
RanAlone(op) == response.op = op /\ batch.count = 1

\* C1: every stored account balance is >= 0 in every reachable state.
C1_NonNegativeBalances ==
  \A i \in 1..Len(accounts) : accounts[i].balance >= 0

\* C2: a successful transfer that ran with no other request in flight leaves
\* the sum of all balances equal to the sum before it.
C2_TransferConservesSum ==
  (RanAlone("transfer") /\ response.status = 200)
    => SumBalances(accounts) = SumBalances(batch.accounts0)

C2_Witness ==
  /\ RanAlone("transfer") /\ response.status = 200
  /\ accounts # batch.accounts0
  /\ SumBalances(accounts) > 0

\* C3: no two stored accounts have the same accountNumber.
C3_UniqueAccountNumbers ==
  \A i, j \in 1..Len(accounts) :
    i # j => accounts[i].accountNumber # accounts[j].accountNumber

\* C4: a well-formed createAccount whose accountNumber already exists is
\* answered 400 "already exists" and leaves the accounts (the existing
\* account's name and balance included) and the transactions as they were.
C4_DuplicateRejected ==
  (/\ RanAlone("createAccount")
   /\ response.name.t = "string"
   /\ Numbered(batch.accounts0, response.accountNumber) # {})
    => /\ response.status = 400
       /\ response.message = "already exists"
       /\ accounts = batch.accounts0
       /\ transactions = batch.transactions0

C4_Witness ==
  /\ RanAlone("createAccount")
  /\ response.message = "already exists"
  /\ \E i \in Numbered(accounts, response.accountNumber) :
       /\ accounts[i].name # response.name.s
       /\ accounts[i].balance # balanceOrDefault(response.balance)

\* The conditions under which a transfer must be refused, on the ledger the
\* request found.
TransferInvalid(accts, from, to, amount) ==
  \/ amount.t = "undefined"
  \/ amount.v <= 0
  \/ from = to
  \/ Numbered(accts, from) = {}
  \/ Numbered(accts, to) = {}
  \/ \E i \in Numbered(accts, from) :
       (\A j \in Numbered(accts, from) : i <= j) /\ accts[i].balance < amount.v

\* C5: a transfer that fails validation (non-positive amount, same account,
\* missing account, source balance < amount) is refused, changes no balance
\* and appends no transaction; and a refused transfer is one of these.
C5_FailedTransferChangesNothing ==
  RanAlone("transfer") =>
    /\ (response.status # 200) =
         TransferInvalid(batch.accounts0, response.accountNumber,
                         response.toAccountNumber, response.amount)
    /\ (response.status # 200) =>
         (accounts = batch.accounts0 /\ transactions = batch.transactions0)

C5_Witness ==
  /\ RanAlone("transfer")
  /\ response.message = "Insufficient funds in source account"
  /\ SumBalances(accounts) > 0
  /\ transactions # <<>>

\* A transfer has debited its source and not yet credited its destination,
\* or has changed the balances and not yet recorded its transaction.
Partial(p) == h[p].pc \in {"transfer_creditCall", "transfer_credit", "transfer_tx"}

\* A step of handler q that reads the account map.
Observes(q) == StartGet(q) \/ TransferLookupTo(q) \/ TransferCreditCall(q)

\* C6: no step of another request reads the ledger while a transfer is
\* between its debit and its credit, or between its writes and its record.
C6_TransferAtomic ==
  [][\A p, q \in Procs : (p # q /\ Partial(p)) => ~Observes(q)]_vars

\* C7: once a group of overlapping deposits and withdrawals has completed,
\* every balance is its balance before them plus the successful deposits
\* minus the successful withdrawals.
C7_NoLostUpdate ==
  (Quiescent /\ batch.count >= 1 /\ batch.ops \subseteq {"deposit", "withdraw"})
    => \A i \in 1..Len(batch.accounts0) :
         accounts[i].balance = batch.accounts0[i].balance + batch.delta[i]

\* C8: two overlapping withdrawals or outgoing transfers never both succeed
\* when together they take more than the account holds: what the successful
\* requests of the pair took from an account is covered by its balance.
C8_NoOverdraft ==
  (Quiescent /\ batch.count = 2 /\ batch.ops \subseteq {"withdraw", "transfer"})
    => \A i \in 1..Len(batch.accounts0) :
         batch.accounts0[i].balance + batch.delta[i] >= 0

\* C9: once a group of overlapping transfers (and nothing else) has
\* completed, the sum of all balances is the sum before the first began.
C9_ConcurrentTransfersConserveSum ==
  (Quiescent /\ batch.count >= 1 /\ batch.ops = {"transfer"})
    => SumBalances(accounts) = SumBalances(batch.accounts0)

\* C10: a deposit of a > 0 on an existing account n, run with no other
\* request in flight, succeeds, adds a to n's balance, leaves the other
\* accounts as they were, appends one deposit transaction (to n's id, from
\* null, amount a) and returns n with the new balance.
C10_DepositEffect ==
  RanAlone("deposit") =>
    LET n == response.accountNumber
        a == response.amount
        before == batch.accounts0
    IN /\ (response.status = 200) =
            (a.t = "number" /\ a.v > 0 /\ Numbered(before, n) # {})
       /\ (response.status = 200) =>
            \E i \in Numbered(before, n) :
              /\ \A j \in Numbered(before, n) : i <= j
              /\ accounts = [before EXCEPT ![i].balance = @ + a.v]
              /\ transactions =
                   Append(batch.transactions0,
                          [id |-> Len(batch.transactions0) + 1, type |-> "deposit",
                           fromAccountId |-> NullId, toAccountId |-> before[i].id,
                           amount |-> a.v, amountIsString |-> FALSE,
                           createdAt |-> now])
              /\ response.result = accounts[i]

C10_Witness ==
  /\ RanAlone("deposit") /\ response.status = 200
  /\ Len(accounts) >= 2
  /\ response.result.balance > response.amount.v

\* The position of the account that a lookup of accountNumber n finds.
FirstNumbered(accts, n) ==
  CHOOSE i \in Numbered(accts, n) : \A j \in Numbered(accts, n) : i <= j

\* C11: a withdrawal of a from account n, run with no other request in
\* flight, succeeds exactly when a > 0, n exists and holds at least a (a = the
\* whole balance included); it then sets n's balance to the old balance - a,
\* leaves the other accounts as they were, and appends one withdraw
\* transaction (from n's id, to null, amount a).
C11_WithdrawEffect ==
  RanAlone("withdraw") =>
    LET n == response.accountNumber
        a == response.amount
        before == batch.accounts0
    IN /\ (response.status = 200) =
            (/\ a.t = "number" /\ a.v > 0 /\ Numbered(before, n) # {}
             /\ before[FirstNumbered(before, n)].balance >= a.v)
       /\ (response.status = 200) =>
            LET i == FirstNumbered(before, n)
            IN /\ accounts = [before EXCEPT ![i].balance = @ - a.v]
               /\ transactions =
                    Append(batch.transactions0,
                           [id |-> Len(batch.transactions0) + 1, type |-> "withdraw",
                            fromAccountId |-> before[i].id, toAccountId |-> NullId,
                            amount |-> a.v, amountIsString |-> FALSE,
                           createdAt |-> now])
               /\ response.result = accounts[i]

C11_Witness ==
  /\ RanAlone("withdraw") /\ response.status = 200
  /\ Len(accounts) >= 2
  /\ response.result.balance = 0

\* C12: a withdrawal of a > 0 from an existing account that holds less than a,
\* run with no other request in flight, is answered 400 "Insufficient funds"
\* and leaves every balance and the transactions as they were.
C12_InsufficientFundsRejected ==
  LET n == response.accountNumber
      a == response.amount
      before == batch.accounts0
  IN (/\ RanAlone("withdraw")
      /\ a.t = "number" /\ a.v > 0
      /\ Numbered(before, n) # {}
      /\ before[FirstNumbered(before, n)].balance < a.v)
       => /\ response.status = 400
          /\ response.message = "Insufficient funds"
          /\ accounts = before
          /\ transactions = batch.transactions0

C12_Witness ==
  /\ RanAlone("withdraw")
  /\ response.message = "Insufficient funds"
  /\ Len(accounts) >= 2
  /\ transactions # <<>>
  /\ accounts[FirstNumbered(accounts, response.accountNumber)].balance = 0

\* C13: a successful transfer of a from s to d, run with no other request in
\* flight, takes a from s's balance, adds a to d's balance, leaves the other
\* accounts as they were, and appends one transfer transaction (from s's id,
\* to d's id, amount a).
C13_TransferEffect ==
  (RanAlone("transfer") /\ response.status = 200) =>
    LET a == response.amount
        before == batch.accounts0
        i == FirstNumbered(before, response.accountNumber)
        j == FirstNumbered(before, response.toAccountNumber)
    IN /\ a.t = "number" /\ a.v > 0
       /\ Numbered(before, response.accountNumber) # {}
       /\ Numbered(before, response.toAccountNumber) # {}
       /\ i # j
       /\ accounts = [before EXCEPT ![i].balance = @ - a.v, ![j].balance = @ + a.v]
       /\ transactions =
            Append(batch.transactions0,
                   [id |-> Len(batch.transactions0) + 1, type |-> "transfer",
                    fromAccountId |-> before[i].id, toAccountId |-> before[j].id,
                    amount |-> a.v, amountIsString |-> FALSE,
                           createdAt |-> now])

C13_Witness ==
  /\ RanAlone("transfer") /\ response.status = 200
  /\ Len(transactions) >= 3
  /\ \E i \in 1..Len(accounts) : accounts[i].balance > response.amount.v

\* The request just answered named an accountNumber that the ledger it found
\* does not hold.
NamesMissingAccount ==
  \/ /\ response.op \in {"deposit", "withdraw"}
     /\ Numbered(batch.accounts0, response.accountNumber) = {}
  \/ /\ response.op = "transfer"
     /\ \/ Numbered(batch.accounts0, response.accountNumber) = {}
        \/ Numbered(batch.accounts0, response.toAccountNumber) = {}

\* C14: a deposit, withdrawal or transfer that names an accountNumber that
\* does not exist leaves the accounts and the transactions as they were, and
\* (its amount being > 0 and, for a transfer, its two numbers different) is
\* answered 404 not found.
C14_AccountNotFound ==
  (batch.count = 1 /\ NamesMissingAccount) =>
    /\ accounts = batch.accounts0
    /\ transactions = batch.transactions0
    /\ (/\ response.amount.t = "number" /\ response.amount.v > 0
        /\ response.op = "transfer" => response.accountNumber # response.toAccountNumber)
         => /\ response.status = 404
            /\ response.message =
                 IF response.op = "transfer" THEN "One or both accounts not found"
                 ELSE "not found"

C14_Witness ==
  /\ RanAlone("transfer")
  /\ response.message = "One or both accounts not found"
  /\ Numbered(accounts, response.accountNumber) # {}
  /\ accounts[FirstNumbered(accounts, response.accountNumber)].balance >= response.amount.v
  /\ transactions # <<>>

\* C15: a transfer with an amount > 0 and fromAccountNumber = toAccountNumber
\* is answered 400 "Cannot transfer to the same account" in the step in which
\* it arrives, before the handler has looked any account up, and leaves the
\* accounts and the transactions as they were.
C15_SameAccountRejected ==
  [][(/\ response'.op = "transfer"
      /\ response'.amount.t = "number" /\ response'.amount.v > 0
      /\ response'.accountNumber = response'.toAccountNumber)
       => /\ response'.status = 400
          /\ response'.message = "Cannot transfer to the same account"
          /\ nreq' = nreq + 1
          /\ h' = h
          /\ accounts' = accounts
          /\ transactions' = transactions]_vars

C15_Witness ==
  /\ response.op = "transfer"
  /\ response.message = "Cannot transfer to the same account"
  /\ accounts # <<>>
  /\ Numbered(accounts, response.accountNumber) = {}

\* C16: a createAccount answered 201, run with no other request in flight,
\* has inserted exactly one account carrying the supplied accountNumber, name
\* and balance (0 when none was supplied) and returns it; when that balance is
\* > 0 it has appended exactly one deposit transaction (to the new account's
\* id, from null, amount the balance), otherwise none.
C16_CreateAccountEffect ==
  (RanAlone("createAccount") /\ response.status = 201) =>
    LET b == IF response.balance.t = "undefined" THEN 0 ELSE response.balance.v
        created == [id |-> Len(batch.accounts0) + 1,
                    accountNumber |-> response.accountNumber,
                    name |-> response.name.s, balance |-> b,
                    balanceIsString |-> FALSE, createdAt |-> now]
    IN /\ response.name.t = "string"
       /\ accounts = Append(batch.accounts0, created)
       /\ response.result = created
       /\ transactions =
            IF b > 0
            THEN Append(batch.transactions0,
                        [id |-> Len(batch.transactions0) + 1, type |-> "deposit",
                         fromAccountId |-> NullId, toAccountId |-> created.id,
                         amount |-> b, amountIsString |-> FALSE,
                         createdAt |-> now])
            ELSE batch.transactions0

C16_Witness ==
  /\ RanAlone("createAccount") /\ response.status = 201
  /\ response.balance.t = "number" /\ response.balance.v > 0
  /\ Len(accounts) >= 2
  /\ accounts[1].name # response.name.s
  /\ Len(transactions) = 1

\* C17: a createAccount whose accountNumber is not positive or whose balance
\* is negative is refused with 400 and inserts no account and no transaction.
C17_InvalidCreateRejected ==
  (/\ RanAlone("createAccount")
   /\ \/ response.accountNumber <= 0
      \/ (response.balance.t = "number" /\ response.balance.v < 0))
    => /\ response.status = 400
       /\ accounts = batch.accounts0
       /\ transactions = batch.transactions0

\* C18: a deposit, withdrawal or transfer whose amount is 0, negative or
\* missing is answered 400 "Amount must be positive" in the step in which it
\* arrives, before the handler has read any account, and leaves the accounts
\* and the transactions as they were.
C18_InvalidAmountRejected ==
  [][(/\ response'.op \in {"deposit", "withdraw", "transfer"}
      /\ response'.amount.t = "undefined" \/ response'.amount.v <= 0)
       => /\ response'.status = 400
          /\ response'.message = "Amount must be positive"
          /\ nreq' = nreq + 1
          /\ h' = h
          /\ accounts' = accounts
          /\ transactions' = transactions]_vars

C18_Witness ==
  /\ response.op = "transfer"
  /\ response.amount.t = "undefined"
  /\ response.message = "Amount must be positive"
  /\ ~Quiescent
  /\ SumBalances(accounts) > 0

\* C19: in every state with no request in flight the number of transactions
\* is the number of deposits, withdrawals and transfers answered with success
\* plus the number of createAccount requests with a balance > 0 answered with
\* success.
C19_OneTransactionPerSuccess ==
  Quiescent => Len(transactions) = batch.successes

\* C20: every step keeps every recorded transaction in the log, at its place
\* and with all its fields (id, type, fromAccountId, toAccountId, amount,
\* createdAt) as they were.
C20_AppendOnly ==
  [][/\ Len(transactions') >= Len(transactions)
     /\ \A i \in 1..Len(transactions) : transactions'[i] = transactions[i]]_vars

C20_Witness ==
  /\ Len(transactions) >= 2
  /\ transactions[1].createdAt < transactions[2].createdAt
  /\ transactions[1].type # transactions[2].type

\* The field-presence rule of each transaction type.
FieldsPresent(t) ==
  /\ t.type \in {"deposit", "withdraw", "transfer"}
  /\ t.type = "deposit" => (t.fromAccountId = NullId /\ t.toAccountId # NullId)
  /\ t.type = "withdraw" => (t.fromAccountId # NullId /\ t.toAccountId = NullId)
  /\ t.type = "transfer" => (t.fromAccountId # NullId /\ t.toAccountId # NullId)

\* C21: in every reachable state every recorded transaction has one of the
\* three types, has the account references its type requires (deposit: no
\* source, a destination; withdraw: a source, no destination; transfer:
\* both), and has an amount that is a number > 0.
C21_TransactionsWellFormed ==
  \A i \in 1..Len(transactions) :
    /\ FieldsPresent(transactions[i])
    /\ ~transactions[i].amountIsString
    /\ transactions[i].amount > 0

\* (the part of C21 that holds: references as the type requires, and the
\* number the amount stands for > 0)
TransactionsShaped ==
  \A i \in 1..Len(transactions) :
    FieldsPresent(transactions[i]) /\ transactions[i].amount > 0

\* The account numbers a deposit, withdraw or transfer handler names.
NamedNumbers(r) ==
  IF r.op = "transfer" THEN {r.accountNumber, r.toAccountNumber}
  ELSE {r.accountNumber}

\* C26: every step keeps every stored account, with its id, accountNumber,
\* name and createdAt as they were; all account ids are pairwise distinct;
\* and a step of a deposit, withdraw or transfer handler adds no account and
\* changes nothing but the balance of an account the request names.
C26_AccountIdentityStable ==
  [][/\ Len(accounts') >= Len(accounts)
     /\ \A i \in 1..Len(accounts) :
          /\ accounts'[i].id = accounts[i].id
          /\ accounts'[i].accountNumber = accounts[i].accountNumber
          /\ accounts'[i].name = accounts[i].name
          /\ accounts'[i].createdAt = accounts[i].createdAt
     /\ \A i, j \in 1..Len(accounts') :
          i # j => accounts'[i].id # accounts'[j].id
     /\ \A p \in Procs :
          (h'[p] # h[p] /\ h[p].op \in {"deposit", "withdraw", "transfer"})
            => /\ Len(accounts') = Len(accounts)
               /\ \A i \in 1..Len(accounts) :
                    accounts'[i] # accounts[i]
                      => accounts[i].accountNumber \in NamedNumbers(h[p])]_vars

\* a transfer has written both balances, on accounts created at different
\* times
C26_Witness ==
  /\ Len(accounts) >= 2
  /\ accounts[1].createdAt # accounts[2].createdAt
  /\ \E p \in Procs :
       /\ h[p].pc = "transfer_tx"
       /\ accounts[h[p].account.id].balance # h[p].account.balance
       /\ accounts[h[p].toAccount.id].balance # h[p].toAccount.balance

\* The ids of the stored accounts.
AccountIds == {accounts[i].id : i \in 1..Len(accounts)}

\* C30: in every reachable state every account reference of every recorded
\* transaction that is not null is the id of a stored account, and the two
\* references of a transfer differ.
C30_ReferentialIntegrity ==
  \A i \in 1..Len(transactions) :
    LET t == transactions[i]
    IN /\ t.fromAccountId # NullId => t.fromAccountId \in AccountIds
       /\ t.toAccountId # NullId => t.toAccountId \in AccountIds
       /\ t.type = "transfer" => t.fromAccountId # t.toAccountId

\* a transfer is recorded next to the deposit of an opening balance
C30_Witness ==
  /\ \E i \in 1..Len(transactions) : transactions[i].type = "transfer"
  /\ \E i \in 1..Len(transactions) : transactions[i].type = "deposit"

\* What the log says about account id: the amounts credited to it minus the
\* amounts debited from it.
RECURSIVE LoggedBalance(_, _)
LoggedBalance(txs, id) ==
  IF txs = <<>> THEN 0
  ELSE LET t == txs[Len(txs)]
       IN LoggedBalance(SubSeq(txs, 1, Len(txs) - 1), id)
            + (IF t.toAccountId = id THEN t.amount ELSE 0)
            - (IF t.fromAccountId = id THEN t.amount ELSE 0)

\* C29: in every state with no request in flight, each account's balance is
\* the sum of the amounts of the transactions whose toAccountId is that
\* account minus the sum of the amounts of those whose fromAccountId is it.
C29_LedgerAgreesWithLog ==
  Quiescent =>
    \A i \in 1..Len(accounts) :
      /\ ~accounts[i].balanceIsString
      /\ accounts[i].balance = LoggedBalance(transactions, accounts[i].id)

\* Handler p has written a balance or a new account (id) whose transaction is
\* not yet in the log.
Undocumented(p, id) ==
  \/ h[p].pc \in {"deposit_tx", "withdraw_tx"} /\ h[p].updatedAccount.id = id
  \/ h[p].pc = "createAccount_tx" /\ h[p].account.balance > 0 /\ h[p].account.id = id

\* C28: no getAccount request reads an account whose new balance (or whose
\* creation with a balance > 0) is written while the transaction that
\* documents it is not yet in the log.
C28_BalanceAndRecordTogether ==
  [][\A p, q \in Procs :
       (/\ h[q].pc = "idle"
        /\ h'[q].op = "getAccount"
        /\ Found(h'[q].account))
         => ~Undocumented(p, h'[q].account.id)]_vars

\* rows holds every element of the sequence all, each exactly once
ExactlyOnce(rows, all) ==
  /\ Len(rows) = Len(all)
  /\ \A i \in 1..Len(all) :
       Cardinality({j \in 1..Len(rows) : rows[j] = all[i]}) = 1

\* C22: the answer of listAccounts holds every stored account exactly once,
\* in strictly ascending order of accountNumber.
C22_ListAccountsSorted ==
  response.op = "listAccounts"
    => /\ response.status = 200
       /\ ExactlyOnce(response.result, accounts)
       /\ \A i, j \in 1..Len(response.result) :
            i < j => response.result[i].accountNumber < response.result[j].accountNumber

\* (the part of C22 that holds: every account once, no accountNumber before
\* a smaller one)
ListedAscending ==
  response.op = "listAccounts"
    => /\ response.status = 200
       /\ ExactlyOnce(response.result, accounts)
       /\ \A i, j \in 1..Len(response.result) :
            i < j => response.result[i].accountNumber <= response.result[j].accountNumber

\* Transaction a comes before transaction b in the order of the answer: it is
\* newer, or as old and inserted earlier.
Precedes(a, b) ==
  \/ a.createdAt > b.createdAt
  \/ a.createdAt = b.createdAt /\ a.id < b.id

Min(a, b) == IF a < b THEN a ELSE b

\* C23: the answer of recentTransactions with a limit >= 0 (10 when none is
\* given) holds min(limit, number of transactions) rows, each a recorded
\* transaction, newest first and, among those of one createdAt, in the order
\* of insertion; every transaction left out comes after every row.
C23_RecentTransactions ==
  (response.op = "recentTransactions" /\ parseLimit(response.limit) >= 0)
    => LET rows == response.result
           ids == {rows[i].id : i \in 1..Len(rows)}
       IN /\ response.status = 200
          /\ Len(rows) = Min(parseLimit(response.limit), Len(transactions))
          /\ \A i \in 1..Len(rows) :
               /\ rows[i].id \in 1..Len(transactions)
               /\ LET t == transactions[rows[i].id]
                  IN /\ rows[i].type = t.type
                     /\ rows[i].fromAccountId = t.fromAccountId
                     /\ rows[i].toAccountId = t.toAccountId
                     /\ rows[i].amount = t.amount
                     /\ rows[i].createdAt = t.createdAt
          /\ \A i, j \in 1..Len(rows) : i < j => Precedes(rows[i], rows[j])
          /\ \A i \in 1..Len(rows), k \in 1..Len(transactions) :
               k \notin ids => Precedes(rows[i], transactions[k])

\* of two transactions the newer one, inserted second, is the one returned
C23_Witness ==
  /\ response.op = "recentTransactions"
  /\ parseLimit(response.limit) = 1
  /\ Len(transactions) = 2
  /\ Len(response.result) = 1
  /\ response.result[1].id = 2

\* of two transactions of one createdAt the one inserted first is returned
RecentTie ==
  /\ response.op = "recentTransactions"
  /\ parseLimit(response.limit) = 1
  /\ Len(transactions) = 2
  /\ transactions[1].createdAt = transactions[2].createdAt
  /\ response.result[1].id = 1

\* The sum of the amounts of the transactions of one type.
RECURSIVE SumOf(_, _)
SumOf(txs, type) ==
  IF txs = <<>> THEN 0
  ELSE (IF Head(txs).type = type THEN Head(txs).amount ELSE 0) + SumOf(Tail(txs), type)

\* C24: the answer of dashboardStats reports the number of stored accounts,
\* the sum of the amounts of all deposit transactions (opening balances
\* included), the sum of the amounts of all withdraw transactions, and the
\* number of transfer transactions, of the ledger as it is.
C24_DashboardStats ==
  response.op = "dashboardStats"
    => /\ response.status = 200
       /\ response.result.totalAccounts = Len(accounts)
       /\ response.result.totalDeposits = Money(SumOf(transactions, "deposit"))
       /\ response.result.totalWithdrawals = Money(SumOf(transactions, "withdraw"))
       /\ response.result.activeTransfers = CountOf(transactions, "transfer")

\* (C24 on a log whose amounts are all numbers)
StatsOfNumbers ==
  (\A i \in 1..Len(transactions) : ~transactions[i].amountIsString)
    => C24_DashboardStats

\* C25: no step of a getAccount, listAccounts, recentTransactions or
\* dashboardStats handler changes the accounts or the transactions, and the
\* answer of listAccounts and of dashboardStats is determined by the ledger
\* alone (so two calls with no change of the ledger between them give the
\* same answer).
C25_ReadsArePure ==
  /\ [][\A p \in Procs :
          (h'[p] # h[p] /\ (h[p].op \in ReadOps \/ h'[p].op \in ReadOps))
            => (accounts' = accounts /\ transactions' = transactions)]_vars
  /\ [](response.op = "listAccounts"
          => response.result = getAllAccounts(accounts))
  /\ [](response.op = "dashboardStats"
          => response.result = Stats(getAllAccounts(accounts), transactions))

\* accounts listed in order while the map keeps them in the order of creation
C25_Witness ==
  /\ response.op = "listAccounts"
  /\ Len(accounts) = 2
  /\ accounts[1].accountNumber > accounts[2].accountNumber
  /\ response.result[1] = accounts[2]
  /\ transactions # <<>>

\* C27: every createAccount, deposit, withdraw or transfer handler that is in
\* flight eventually finishes, whatever other requests overlap it, and the
\* step that finishes it sends the one response of its request.
C27_EveryRequestCompletes ==
  /\ \A p \in Procs :
       (h[p].op \in {"createAccount", "deposit", "withdraw", "transfer"})
         ~> ~InFlight(p)
  /\ [][\A p \in Procs :
          (InFlight(p) /\ ~InFlight(p)')
            => /\ response'.op = h[p].op
               /\ response'.status \in {200, 201, 400, 404, 500}
               /\ \A q \in Procs : q # p => h'[q] = h[q]]_vars

\* a transfer and a deposit with a string amount are both under way
C27_Witness ==
  /\ h[1].op = "transfer" /\ h[1].pc = "transfer_credit"
  /\ h[2].op = "deposit" /\ h[2].pc = "deposit_respond"
  /\ h[2].newBalanceIsString
====
